---- MODULE Spec2Model ----
(***************************************************************************)
(* Model of "Release Notes Generation Script/yaml_to_pdf_generator.py":    *)
(* the ReleaseNotesPDFGenerator class and main().                          *)
(*                                                                         *)
(* Text is modelled as a sequence of one-token strings, so that strip(),   *)
(* split(':'), upper(), substring tests and the tag-stripping regular      *)
(* expression are computed token by token, as the code computes them       *)
(* character by character.                                                 *)
(***************************************************************************)
EXTENDS Integers, Sequences, FiniteSets, TLC

VARIABLES
    \* ---- the process and its environment (main, lines 522-543)
    pc,              \* position of main(): start, constructed, loaded, building,
                     \* generated, exited (idle: main is not running)
    yamlFile,        \* newsData.yaml as found on disk
    outFile,         \* CCDI_Hub_Release_Notes.pdf on disk
    svgAsset,        \* Portal_Logo.svg on disk
    pngAsset,        \* nih_logo.png on disk
    exitStatus,      \* -1 while running, else the process exit status
    diagnostics,     \* number of error diagnostics printed
    \* ---- fields of ReleaseNotesPDFGenerator (lines 67-92)
    release_notes,
    total_pages,
    logo_drawing,
    styles,
    \* ---- locals of generate_pdf and the layout engine (lines 446-520)
    story,           \* the flowables handed to doc.build
    numPages,        \* pages the layout engine produces for the story
    pageNum,         \* canvas.getPageNumber() of the page being decorated
    page,            \* what create_header_footer drew on that page
    svgLookups,      \* os.path.exists(svg_logo_path) calls so far
    svgConversions,  \* convert_svg_to_drawing calls so far
    \* ---- direct calls of parse_html_content on one generator
    calls,           \* number of calls made
    html_content,    \* argument of the latest call
    elements,        \* list returned by the latest call
    raised,          \* whether the latest call let an exception escape
    failed,          \* whether the latest call ran its except block
    firstCall,       \* argument and outcome of the first call
    \* ---- direct calls of convert_svg_to_drawing
    svgArg,          \* [asset, target_height] of the latest call
    drawing          \* its return value

envVars  == <<yamlFile, outFile, svgAsset, pngAsset>>
selfVars == <<release_notes, total_pages, logo_drawing, styles>>
mainVars == <<pc, exitStatus, diagnostics, story, numPages, pageNum, page,
              svgLookups, svgConversions>>
parseVars == <<calls, html_content, elements, raised, failed, firstCall>>
svgVars  == <<svgArg, drawing>>
vars == <<envVars, selfVars, mainVars, parseVars, svgVars>>

----------------------------------------------------------------------------
(* Text helpers: str.strip, str.split(':')[0], `in`, str.upper            *)

IsSpace(c) == c = " "

RECURSIVE LStrip(_)
LStrip(t) == IF t = <<>> THEN t
             ELSE IF IsSpace(Head(t)) THEN LStrip(Tail(t)) ELSE t

RECURSIVE RStrip(_)
RStrip(t) == IF t = <<>> THEN t
             ELSE IF IsSpace(t[Len(t)]) THEN RStrip(SubSeq(t, 1, Len(t) - 1)) ELSE t

Strip(t) == RStrip(LStrip(t))

\* `needle in hay` for str: needle occurs as a contiguous run of hay
IsSubstring(needle, hay) ==
    \E i \in 1..(Len(hay) - Len(needle) + 1) :
        SubSeq(hay, i, i + Len(needle) - 1) = needle

Contains(t, c) == \E i \in 1..Len(t) : t[i] = c

\* text.split(':')[0]: the part before the first colon (all of it if none)
RECURSIVE SplitFirst(_, _)
SplitFirst(t, sep) == IF t = <<>> THEN <<>>
                      ELSE IF Head(t) = sep THEN <<>>
                      ELSE <<Head(t)>> \o SplitFirst(Tail(t), sep)

UpperChar(c) == CASE c = "j" -> "J"
                  [] c = "a" -> "A"
                  [] c = "n" -> "N"
                  [] c = "Unknown Date" -> "UNKNOWN DATE"
                  [] OTHER -> c

Upper(t) == [i \in 1..Len(t) |-> UpperChar(t[i])]

----------------------------------------------------------------------------
(* HTML fragments.  A fragment is a str (a token sequence) or, since YAML  *)
(* values are untyped, some other truthy object.                           *)

Open(tag, style) == [k |-> "open", tag |-> tag, style |-> style, s |-> ""]
Close(tag)       == [k |-> "close", tag |-> tag, style |-> <<>>, s |-> ""]
Text(s)          == [k |-> "text", tag |-> "", style |-> <<>>, s |-> s]
\* an entity-encoded piece of markup, e.g. &lt;b&gt;
Ent(s)           == [k |-> "ent", tag |-> "", style |-> <<>>, s |-> s]

Html(toks) == [isStr |-> TRUE, toks |-> toks]
NotAString == [isStr |-> FALSE, toks |-> <<>>]

\* what the markup parser makes of an entity: the character data it encodes
Decode(s) == IF s = "&lt;b&gt;" THEN "<b>" ELSE s

\* Python truthiness of the fragment (`if not html_content`)
Truthy(h) == ~h.isStr \/ h.toks # <<>>

(* The tree BeautifulSoup(html_content, 'html.parser') builds: a start tag *)
(* opens an element under the innermost open one, an end tag closes the    *)
(* innermost open element of that name together with everything opened     *)
(* inside it (and is ignored when no such element is open), the end of the *)
(* input closes whatever is still open.                                    *)
Node(tag, style, s, kids) == [tag |-> tag, style |-> style, s |-> s, kids |-> kids]
TextNode(s) == Node("#text", <<>>, s, <<>>)

AddKid(stack, kid) ==
    [stack EXCEPT ![Len(stack)] = [@ EXCEPT !.kids = Append(@, kid)]]

\* close the innermost open element
PopOne(stack) == AddKid(SubSeq(stack, 1, Len(stack) - 1), stack[Len(stack)])

RECURSIVE PopTo(_, _)
PopTo(stack, tag) == IF stack[Len(stack)].tag = tag THEN PopOne(stack)
                     ELSE PopTo(PopOne(stack), tag)

RECURSIVE PopAll(_)
PopAll(stack) == IF Len(stack) = 1 THEN stack[1] ELSE PopAll(PopOne(stack))

Feed(stack, tok) ==
    CASE tok.k = "open"  -> Append(stack, Node(tok.tag, tok.style, "", <<>>))
      [] tok.k = "close" -> IF \E i \in 2..Len(stack) : stack[i].tag = tok.tag
                            THEN PopTo(stack, tok.tag) ELSE stack
      [] tok.k = "text"  -> AddKid(stack, TextNode(tok.s))
      [] tok.k = "ent"   -> AddKid(stack, TextNode(Decode(tok.s)))

RECURSIVE FeedAll(_, _)
FeedAll(stack, toks) == IF toks = <<>> THEN stack
                        ELSE FeedAll(Feed(stack, Head(toks)), Tail(toks))

BeautifulSoup(toks) == PopAll(FeedAll(<<Node("[document]", <<>>, "", <<>>)>>, toks))

\* element.get_text(): the character data of all descendants, in order
RECURSIVE GetText(_)
RECURSIVE GetTextOfAll(_)
GetText(node) == IF node.tag = "#text" THEN <<node.s>> ELSE GetTextOfAll(node.kids)
GetTextOfAll(kids) == IF kids = <<>> THEN <<>>
                      ELSE GetText(Head(kids)) \o GetTextOfAll(Tail(kids))

\* all element descendants of a node in document order, each with its parent's name
RECURSIVE Descendants(_)
RECURSIVE DescendantsOfAll(_, _)
Descendants(node) == DescendantsOfAll(node.kids, node.tag)
DescendantsOfAll(kids, parent) ==
    IF kids = <<>> THEN <<>>
    ELSE LET kid == Head(kids) IN
         (IF kid.tag = "#text" THEN <<>>
          ELSE <<[el |-> kid, parent |-> parent]>> \o Descendants(kid))
         \o DescendantsOfAll(Tail(kids), parent)

\* soup.find_all([...names...])
FindAll(node, names) ==
    LET Wanted(d) == d.el.tag \in names IN SelectSeq(Descendants(node), Wanted)

\* element.find_all('li', recursive=False): direct children only
DirectChildren(node, name) ==
    LET Wanted(kid) == kid.tag = name IN SelectSeq(node.kids, Wanted)

\* element.find('ul'): the first descendant of that name, or None
NoElement == Node("None", <<>>, "", <<>>)

Find(node, name) ==
    LET found == FindAll(node, {name}) IN
    IF found = <<>> THEN NoElement ELSE found[1].el

----------------------------------------------------------------------------
(* setup_styles and the Paragraph flowable                                 *)

\* the style sheet setup_styles leaves in self.styles: name -> fontSize
StyleSheet == [ReleaseTitle |-> 24, ReleaseDate |-> 14, SectionHeader |-> 16,
               SubsectionHeader |-> 13, ReleaseContent |-> 11, ListItem |-> 11,
               Footer |-> 9, PageNumber |-> 9]

Paragraph(text, style) == [type |-> "Paragraph", text |-> text, style |-> style]

\* The Paragraph constructor parses its text as inline markup and raises
\* ValueError on markup it cannot balance: a literal <b> that is never closed.
ParagraphRaises(text) == Contains(text, "<b>")

----------------------------------------------------------------------------
(* parse_html_content (lines 206-284)                                      *)

HeadingColor == <<"color", ":", " ", "#2f5496">>
FontSize16   == <<"font-size", ":", " ", "16pt">>
FontSize13   == <<"font-size", ":", " ", "13pt">>

\* "*" stands for the bullet character U+2022
Bullet       == <<"*", " ">>
NestedBullet == <<" ", " ", "*", " ">>

\* elements.append(Paragraph(text, style)) inside the try block: once the
\* constructor has raised, control has left the loop and nothing more is appended
AppendParagraph(acc, text, style) ==
    IF acc.failed THEN acc
    ELSE IF ParagraphRaises(text) THEN [acc EXCEPT !.failed = TRUE]
    ELSE [acc EXCEPT !.elements = Append(@, Paragraph(text, style))]

\* lines 225-238
HandleP(acc, element) ==
    LET text  == Strip(GetText(element))
        style == element.style
    IN  IF text = <<>> THEN acc
        ELSE IF IsSubstring(HeadingColor, style) /\ IsSubstring(FontSize16, style)
             THEN AppendParagraph(acc, text, "SectionHeader")
        ELSE IF IsSubstring(HeadingColor, style) /\ IsSubstring(FontSize13, style)
             THEN AppendParagraph(acc, text, "SubsectionHeader")
        ELSE AppendParagraph(acc, text, "ReleaseContent")

\* lines 240-247
HandleHeading(acc, element) ==
    LET text == Strip(GetText(element))
    IN  IF text = <<>> THEN acc
        ELSE IF element.tag = "h1" THEN AppendParagraph(acc, text, "SectionHeader")
        ELSE AppendParagraph(acc, text, "SubsectionHeader")

\* lines 261-264
RECURSIVE HandleNestedItems(_, _)
HandleNestedItems(acc, lis) ==
    IF lis = <<>> THEN acc
    ELSE LET nested_text == Strip(GetText(Head(lis)))
             acc1 == IF nested_text = <<>> THEN acc
                     ELSE AppendParagraph(acc, NestedBullet \o nested_text, "ListItem")
         IN  HandleNestedItems(acc1, Tail(lis))

\* lines 252-267, one li of the loop of line 251
HandleListItem(acc, li) ==
    LET text == Strip(GetText(li))
        nested_ul == Find(li, "ul")
    IN  IF text = <<>> THEN acc
        ELSE IF nested_ul # NoElement
             THEN LET main_text == IF Contains(text, ":") THEN SplitFirst(text, ":")
                                   ELSE text
                  IN  HandleNestedItems(
                          AppendParagraph(acc, Bullet \o main_text, "ListItem"),
                          DirectChildren(nested_ul, "li"))
        ELSE AppendParagraph(acc, Bullet \o text, "ListItem")

\* lines 249-267
RECURSIVE HandleUl(_, _)
HandleUl(acc, lis) ==
    IF lis = <<>> THEN acc
    ELSE HandleUl(HandleListItem(acc, Head(lis)), Tail(lis))

\* lines 269-275; element.parent is never None for an element found in the soup
HandleLi(acc, element, parent) ==
    IF parent # "ul"
    THEN LET text == Strip(GetText(element))
         IN  IF text = <<>> THEN acc
             ELSE AppendParagraph(acc, Bullet \o text, "ListItem")
    ELSE acc

\* the body of the loop of line 224
HandleElement(acc, d) ==
    CASE d.el.tag = "p" -> HandleP(acc, d.el)
      [] d.el.tag \in {"h1", "h2", "h3"} -> HandleHeading(acc, d.el)
      [] d.el.tag = "ul" -> HandleUl(acc, DirectChildren(d.el, "li"))
      [] d.el.tag = "li" -> HandleLi(acc, d.el, d.parent)

RECURSIVE HandleElements(_, _)
HandleElements(acc, ds) ==
    IF ds = <<>> \/ acc.failed THEN acc
    ELSE HandleElements(HandleElement(acc, Head(ds)), Tail(ds))

\* re.sub(r'<[^>]+>', '', html_content): every tag is removed, character data
\* and entities are left as written
RECURSIVE StripTags(_)
StripTags(toks) ==
    IF toks = <<>> THEN <<>>
    ELSE (IF Head(toks).k \in {"open", "close"} THEN <<>> ELSE <<Head(toks).s>>)
         \o StripTags(Tail(toks))

\* lines 221-275: the try block.  BeautifulSoup raises TypeError on an object
\* that is not markup.
TryBlock(initial, h) ==
    LET acc0 == [elements |-> initial, failed |-> FALSE]
    IN  IF ~h.isStr THEN [acc0 EXCEPT !.failed = TRUE]
        ELSE HandleElements(acc0,
                            FindAll(BeautifulSoup(h.toks),
                                    {"p", "h1", "h2", "h3", "ul", "li"}))

\* lines 277-282: the except block; re.sub raises TypeError on an object that is
\* not a str, and the Paragraph constructor may raise again: neither is caught
ExceptBlock(acc, h) ==
    IF ~h.isStr THEN [elements |-> acc.elements, failed |-> TRUE, raised |-> TRUE]
    ELSE LET plain_text == Strip(StripTags(h.toks))
         IN  IF plain_text = <<>>
             THEN [elements |-> acc.elements, failed |-> TRUE, raised |-> FALSE]
             ELSE IF ParagraphRaises(plain_text)
             THEN [elements |-> acc.elements, failed |-> TRUE, raised |-> TRUE]
             ELSE [elements |-> Append(acc.elements,
                                       Paragraph(plain_text, "ReleaseContent")),
                   failed |-> TRUE, raised |-> FALSE]

\* parse_html_content started with `initial` as its elements list.  The result:
\* elements (the list returned), failed (the except block ran), raised (an
\* exception left the function, which then returns nothing).
ParseFrom(initial, h) ==
    IF ~Truthy(h) THEN [elements |-> initial, failed |-> FALSE, raised |-> FALSE]
    ELSE LET acc == TryBlock(initial, h)
         IN  IF acc.failed THEN ExceptBlock(acc, h)
             ELSE [elements |-> acc.elements, failed |-> FALSE, raised |-> FALSE]

\* the list of the previous call is used again instead of a fresh one
ParseHtmlContentShared(h) == ParseFrom(elements, h)

\* line 216: elements = [] is a fresh list on every call
ParseHtmlContent(h) == ParseFrom(<<>>, h)


----------------------------------------------------------------------------
(* The fragments the calls are made with                                   *)

MaxNested == 2      \* nested list items per list item
MaxCalls  == 3      \* direct calls of parse_html_content on one generator

Spaced16    == HeadingColor \o <<";", " ">> \o FontSize16
Spaced13    == HeadingColor \o <<";", " ">> \o FontSize13
Unspaced16  == <<"color", ":", "#2f5496", ";", " ", "font-size", ":", "16pt">>
Unspaced13  == <<"color", ":", "#2f5496", ";", " ", "font-size", ":", "13pt">>
ColorOnly   == HeadingColor
SizeOnly    == FontSize16
OtherColor  == <<"color", ":", " ", "#000000", ";", " ">> \o FontSize16
Background  == <<"background-">> \o HeadingColor \o <<";", " ">> \o FontSize16
NoStyle     == <<>>

Styles == {Spaced16, Spaced13, Unspaced16, Unspaced13, ColorOnly, SizeOnly,
           OtherColor, Background, NoStyle}

Texts == {<<>>, <<" ">>, <<"Overview">>, <<" ", "Overview", " ">>}

Element(tag, style, inner) == <<Open(tag, style)>> \o inner \o <<Close(tag)>>
TextToks(t) == [i \in 1..Len(t) |-> Text(t[i])]

RECURSIVE Items(_)
Items(ts) == IF ts = <<>> THEN <<>>
             ELSE Element("li", <<>>, TextToks(Head(ts))) \o Items(Tail(ts))

ItemTexts == {<<"X">>, <<"Y">>}
ItemLists == UNION {[1..n -> ItemTexts] : n \in 1..MaxNested}
OuterTexts == {<<"Group A", ":", " ">>, <<"Group A", " ">>, <<>>}

ParagraphFragments ==
    {Html(Element("p", st, TextToks(t))) : st \in Styles, t \in Texts}

HeadingFragments ==
    {Html(Element(h, <<>>, TextToks(t))) : h \in {"h1", "h2", "h3"}, t \in Texts}

FlatListFragments == {Html(Element("ul", <<>>, Items(ts))) : ts \in ItemLists}

NestedList(outer, ts) ==
    Element("ul", <<>>,
            Element("li", <<>>, TextToks(outer) \o Element("ul", <<>>, Items(ts))))

NestedListFragments == {Html(NestedList(o, ts)) : o \in OuterTexts, ts \in ItemLists}

\* <ul><li>Group A: <ul><li>X</li><li>Y</li></ul></li></ul>
GroupAExample == Html(NestedList(<<"Group A", ":", " ">>, <<<<"X">>, <<"Y">>>>))

OtherFragments ==
    { Html(<<>>),
      NotAString,
      \* list items that no unordered list wraps
      Html(Items(<<<<"X">>>>)),
      Html(Element("ol", <<>>, Items(<<<<"X">>, <<"Y">>>>))),
      Html(Element("ul", <<>>, Element("div", <<>>, Items(<<<<"X">>>>)))),
      Html(Element("ul", <<>>, Element("li", <<>>,
               TextToks(<<"A">>) \o Element("ol", <<>>, Items(<<<<"X">>>>))))),
      Html(Element("ul", <<>>, Items(<<<<"X">>, <<" ">>>>))),
      Html(NestedList(<<"A", ":", " ", "B", ":">>, <<<<" ">>, <<"Y">>>>)),
      \* a paragraph inside a list item
      Html(Element("ul", <<>>, Element("li", <<>>,
               Element("p", <<>>, TextToks(<<"X">>))))),
      \* elements that are never closed, and an end tag that closes nothing
      Html(<<Open("p", <<>>), Text("Hello")>>),
      Html(<<Open("ul", <<>>), Open("li", <<>>), Text("X"),
             Open("li", <<>>), Text("Y")>>),
      Html(<<Close("p"), Text("Hello")>>),
      \* character data only
      Html(TextToks(<<"Hello">>)),
      Html(<<Text("a"), Ent("&lt;b&gt;")>>),
      \* entity-encoded markup inside elements
      Html(Element("p", <<>>, <<Ent("&lt;b&gt;")>>)),
      Html(Element("p", <<>>, TextToks(<<"ok">>))
           \o Element("p", <<>>, <<Ent("&lt;b&gt;"), Text("x")>>)),
      Html(Element("ul", <<>>, Items(<<<<"X">>>>)
           \o Element("li", <<>>, <<Ent("&lt;b&gt;")>>))),
      Html(Element("h1", <<>>, <<Text("T"), Ent("&lt;b&gt;")>>)
           \o Element("p", <<>>, TextToks(<<"later">>))) }

Fragments == ParagraphFragments \cup HeadingFragments \cup FlatListFragments
             \cup NestedListFragments \cup OtherFragments

----------------------------------------------------------------------------
(* __init__ (lines 67-92): the fields of a freshly constructed generator   *)

NoDrawing == [ok |-> FALSE, width |-> <<0, 1>>, height |-> <<0, 1>>]

NoCall == [made |-> FALSE, html_content |-> Html(<<>>), elements |-> <<>>,
           raised |-> FALSE]

Constructed ==
    /\ release_notes = <<>>
    /\ total_pages = 0
    /\ logo_drawing = NoDrawing
    /\ styles = StyleSheet

\* no direct call of parse_html_content has been made
ParseIdle ==
    /\ calls = 0
    /\ html_content = Html(<<>>)
    /\ elements = <<>>
    /\ raised = FALSE
    /\ failed = FALSE
    /\ firstCall = NoCall

\* no direct call of convert_svg_to_drawing has been made
SvgIdle ==
    /\ svgArg = [asset |-> [kind |-> "missing", width |-> 0, height |-> 0],
                 target_height |-> 0]
    /\ drawing = NoDrawing

\* main() is not running
MainIdle ==
    /\ pc = "idle"
    /\ yamlFile = [kind |-> "missing", hasKey |-> FALSE, sized |-> FALSE,
                   value |-> <<>>]
    /\ outFile = "absent"
    /\ svgAsset = [kind |-> "missing", width |-> 0, height |-> 0]
    /\ pngAsset = "missing"
    /\ exitStatus = -1
    /\ diagnostics = 0
    /\ story = <<>>
    /\ numPages = 0
    /\ pageNum = 0
    /\ page = [logo |-> "none", rule |-> FALSE, attribution |-> FALSE,
               pageText |-> <<0, 0>>]
    /\ svgLookups = 0
    /\ svgConversions = 0

----------------------------------------------------------------------------
(* Direct calls of parse_html_content on one generator                     *)

ParseInit == Constructed /\ MainIdle /\ ParseIdle /\ SvgIdle

\* what parse_html_content returns for each fragment
ParseResults == [h \in Fragments |-> ParseHtmlContent(h)]

\* generator.parse_html_content(h)
ParseCall(h) ==
    /\ calls < MaxCalls
    /\ LET r == ParseResults[h] IN
       /\ calls' = calls + 1
       /\ html_content' = h
       /\ elements' = r.elements
       /\ raised' = r.raised
       /\ failed' = r.failed
       /\ firstCall' = IF firstCall.made THEN firstCall
                       ELSE [made |-> TRUE, html_content |-> h,
                             elements |-> r.elements, raised |-> r.raised]
    /\ UNCHANGED <<envVars, selfVars, mainVars, svgVars>>

ParseNext == \E h \in Fragments : ParseCall(h)

ParseSpec == ParseInit /\ [][ParseNext]_vars


----------------------------------------------------------------------------
(* convert_svg_to_drawing (lines 286-327).  Widths and heights are exact   *)
(* fractions <<numerator, denominator>>.                                    *)

MaxDim == 4         \* logo dimensions and target heights tried: multiples up to MaxDim

FallbackWidth == 400
LogoHeight == 50
TotalPages == 37

Whole(n) == <<n, 1>>
\* a / b
Quotient(a, b) == <<a, b>>
\* n * q
Times(n, q) == <<n * q[1], q[2]>>

\* the width is hard-coded instead of derived from the aspect ratio
ScaledWidthFixed(width, scale_factor) == Whole(FallbackWidth)

\* line 306: new_width = drawing.width * scale_factor
ScaledWidth(width, scale_factor) == Times(width, scale_factor)

\* A logo file: missing, unreadable (svg2rlg returns None or raises), readable
\* with its native width and height (0: the asset supplies none), or readable
\* but made of shapes renderPDF.draw cannot render.
SvgFile(kind, width, height) == [kind |-> kind, width |-> width, height |-> height]

ConvertSvgToDrawing(asset, target_height) ==
    IF asset.kind \notin {"ok", "undrawable"} THEN NoDrawing
    ELSE IF asset.width # 0 /\ asset.height # 0
    THEN LET scale_factor == Quotient(target_height, asset.height)
         IN  [ok |-> TRUE,
              width |-> ScaledWidth(asset.width, scale_factor),
              height |-> Whole(target_height)]
    ELSE [ok |-> TRUE, width |-> Whole(FallbackWidth),
          height |-> Whole(target_height)]

----------------------------------------------------------------------------
(* get_logo_drawing (lines 329-343) and create_header_footer (389-444)     *)

\* line 339: if self.logo_drawing is None
NeedsLoad(cached) == cached = NoDrawing

\* get_logo_drawing: the new cache, and the lookups and conversions it made
GetLogoDrawing(cached, asset, target_height) ==
    IF NeedsLoad(cached)
    THEN IF asset.kind # "missing"
         THEN [logo_drawing |-> ConvertSvgToDrawing(asset, target_height),
               lookups |-> 1, conversions |-> 1]
         ELSE [logo_drawing |-> cached, lookups |-> 1, conversions |-> 0]
    ELSE [logo_drawing |-> cached, lookups |-> 0, conversions |-> 0]

\* the exceptions of lines 406-413 are not caught
HeaderBrandingUncaught(got, asset, png) ==
    IF got.ok
    THEN IF asset.kind = "undrawable" THEN "uncaught" ELSE "svg"
    ELSE IF png = "ok" THEN "png" ELSE "uncaught"

\* lines 401-419: what ends up drawn as the header branding.  renderPDF.draw
\* and canvas.drawImage raise on content they cannot render; so does line 413;
\* the except block of line 414 then draws the text.
HeaderBranding(got, asset, png) ==
    IF got.ok
    THEN IF asset.kind = "undrawable" THEN "text" ELSE "svg"
    ELSE IF png # "missing"
         THEN IF png = "corrupt" THEN "text" ELSE "png"
         ELSE "text"

\* lines 421-444: what follows the header on every page
Decorated(branding, page_num, total) ==
    [logo |-> branding, rule |-> TRUE, attribution |-> TRUE,
     pageText |-> <<page_num, total>>]

----------------------------------------------------------------------------
(* The release notes, create_table_of_contents (345-387) and the story of  *)
(* generate_pdf (460-498)                                                   *)

MaxNotes == 2       \* entries of releaseNotesList
MaxExtra == 1       \* pages the layout adds beyond one per page break

Note(keys, version, date, fullText) ==
    [keys |-> keys, version |-> version, title |-> <<"Release", " ", version>>,
     date |-> date, fullText |-> fullText]

AllKeys == {"version", "title", "date", "fullText"}

SimpleBody == Html(Element("p", Spaced16, TextToks(<<"Overview">>))
                   \o Element("ul", <<>>, Items(<<<<"X">>>>)))
RecoveredBody == Html(Element("p", <<>>, <<Ent("&lt;b&gt;")>>))

Notes ==
    { Note(AllKeys, "1.0", <<"j", "a", "n", " ", "5">>, SimpleBody),
      Note(AllKeys \ {"date"}, "2.0", <<>>, Html(<<>>)),
      Note(AllKeys \ {"version", "fullText"}, "", <<"J", "a", "n">>, Html(<<>>)),
      Note(AllKeys, "3.0", <<"j", "a", "n">>, RecoveredBody),
      Note(AllKeys, "4.0", <<"j", "a", "n">>, NotAString) }

NoteLists == UNION {[1..n -> Notes] : n \in 0..MaxNotes}

\* note.get(key, default)
NoteGet(note, key, default) == IF key \in note.keys THEN note[key] ELSE default

\* f"release_{i}", i counted from 0 by enumerate
AnchorName(i) == <<"release_", ToString(i)>>

\* the rows are numbered from 1
TocAnchorOneBased(i) == AnchorName(i + 1)

\* line 360: the anchor a table of contents row links to
TocAnchor(i) == AnchorName(i)

\* line 478: the anchor set at a section title
TitleAnchor(i) == AnchorName(i)

\* lines 355-366: the row of entry i (i from 0)
TocRow(i, note) ==
    LET version == NoteGet(note, "version", "N/A")
        date == NoteGet(note, "date", <<"Unknown Date">>)
    IN  <<Paragraph(<<"<link href=#">> \o TocAnchor(i) \o <<" color=blue>", version,
                      "</link>">>, "ListItem"),
          Paragraph(date, "ListItem")>>

TocHeaderRow == <<Paragraph(<<"<b>", "Version", "</b>">>, "ListItem"),
                  Paragraph(<<"<b>", "Date", "</b>">>, "ListItem")>>

CreateTableOfContents(notes) ==
    [type |-> "Table",
     rows |-> <<TocHeaderRow>> \o [i \in 1..Len(notes) |-> TocRow(i - 1, notes[i])]]

PageBreak == [type |-> "PageBreak"]
Spacer(h) == [type |-> "Spacer", height |-> h]

\* a page break follows every entry, the last included
NeedsPageBreakAfterLast(i, n) == i < n

\* line 497: a page break follows every entry but the last
NeedsPageBreak(i, n) == i < n - 1

\* lines 474-498 for entry i (i from 0) of n: the flowables it adds, and whether
\* parse_html_content let an exception escape (the story then stops there)
Section(i, note, n) ==
    LET title == NoteGet(note, "title", <<"Unknown Release">>)
        date == NoteGet(note, "date", <<"Unknown Date">>)
        full_text == NoteGet(note, "fullText", Html(<<>>))
        head == << Paragraph(<<"<a name=">> \o TitleAnchor(i) \o <<"></a>">> \o title,
                             "ReleaseTitle"),
                   Paragraph(<<"<b>", "DATE OF RELEASE:", "</b>", " ">> \o Upper(date),
                             "ReleaseDate"),
                   Spacer("0.05 inch") >>
        parsed == IF Truthy(full_text) THEN ParseHtmlContent(full_text)
                  ELSE [elements |-> <<>>, failed |-> FALSE, raised |-> FALSE]
    IN  IF parsed.raised THEN [flowables |-> head, raised |-> TRUE]
        ELSE [flowables |-> head \o parsed.elements
                            \o (IF NeedsPageBreak(i, n) THEN <<PageBreak>> ELSE <<>>),
              raised |-> FALSE]

RECURSIVE Sections(_, _, _)
Sections(acc, i, notes) ==
    IF i >= Len(notes) \/ acc.raised THEN acc
    ELSE LET sec == Section(i, notes[i + 1], Len(notes))
         IN  Sections([flowables |-> acc.flowables \o sec.flowables,
                       raised |-> sec.raised], i + 1, notes)

\* lines 460-498
BuildStory(notes) ==
    Sections([flowables |-> << Paragraph(<<"Table of Contents">>, "SectionHeader"),
                               Spacer("0.2 inch"),
                               CreateTableOfContents(notes),
                               PageBreak >>,
              raised |-> FALSE], 0, notes)

\* doc.build: every page break that content follows starts a new page, and the
\* layout engine adds the pages that content overflowing a page needs
PagesOfBreaks(flowables) ==
    1 + Cardinality({i \in 1..(Len(flowables) - 1) : flowables[i] = PageBreak})

----------------------------------------------------------------------------
(* load_yaml_data (lines 190-204) and main (522-543)                        *)

YamlData(kind, hasKey, sized, value) ==
    [kind |-> kind, hasKey |-> hasKey, sized |-> sized, value |-> value]

\* newsData.yaml: missing; not YAML; empty (safe_load returns None); a mapping
\* without the key; a scalar or list in which the key occurs; a mapping whose
\* releaseNotesList is null; a mapping whose releaseNotesList is a list
YamlFiles ==
    { YamlData("missing", FALSE, FALSE, <<>>),
      YamlData("unparsable", FALSE, FALSE, <<>>),
      YamlData("null", FALSE, FALSE, <<>>),
      YamlData("mapping", FALSE, FALSE, <<>>),
      YamlData("scalar", TRUE, FALSE, <<>>),
      YamlData("mapping", TRUE, FALSE, <<>>) }
    \cup {YamlData("mapping", TRUE, TRUE, notes) : notes \in NoteLists}

\* lines 192-200: whether the try block raises
LoadRaises(y) ==
    \/ y.kind = "unparsable"          \* yaml.safe_load raises
    \/ y.kind = "null"                \* 'releaseNotesList' in None: TypeError
    \/ ~y.hasKey                      \* line 200: ValueError
    \/ y.kind # "mapping"             \* data['releaseNotesList']: TypeError
    \/ ~y.sized                       \* len(self.release_notes): TypeError

\* the error is printed and the run goes on
OnLoadErrorIgnored == [pc |-> "loaded", exitStatus |-> -1]

\* lines 202-204: print the error and sys.exit(1)
OnLoadError == [pc |-> "exited", exitStatus |-> 1]

SvgFiles == { SvgFile("missing", 0, 0), SvgFile("unreadable", 0, 0),
              SvgFile("ok", 400, 100), SvgFile("ok", 0, 0),
              SvgFile("undrawable", 400, 100) }

PngFiles == {"missing", "corrupt", "ok"}

NoPage == [logo |-> "none", rule |-> FALSE, attribution |-> FALSE,
           pageText |-> <<0, 0>>]

Init ==
    /\ pc = "start"
    /\ yamlFile \in YamlFiles
    /\ outFile \in {"absent", "old"}
    /\ svgAsset \in SvgFiles
    /\ pngAsset \in PngFiles
    /\ exitStatus = -1
    /\ diagnostics = 0
    /\ Constructed
    /\ story = <<>>
    /\ numPages = 0
    /\ pageNum = 0
    /\ page = NoPage
    /\ svgLookups = 0
    /\ svgConversions = 0
    /\ ParseIdle
    /\ SvgIdle

\* main, lines 531-537: the existence check, then __init__
MainCheckInput ==
    /\ pc = "start"
    /\ IF yamlFile.kind = "missing"
       THEN /\ pc' = "exited"
            /\ exitStatus' = 1
            /\ diagnostics' = diagnostics + 1
            /\ UNCHANGED selfVars
       ELSE /\ pc' = "constructed"
            /\ release_notes' = <<>>
            /\ total_pages' = 0
            /\ logo_drawing' = NoDrawing
            /\ styles' = StyleSheet
            /\ UNCHANGED <<exitStatus, diagnostics>>
    /\ UNCHANGED <<envVars, story, numPages, pageNum, page, svgLookups,
                   svgConversions, parseVars, svgVars>>

\* load_yaml_data
LoadYamlData ==
    /\ pc = "constructed"
    /\ IF LoadRaises(yamlFile)
       THEN /\ pc' = OnLoadError.pc
            /\ exitStatus' = OnLoadError.exitStatus
            /\ diagnostics' = diagnostics + 1
            \* line 197 has run when only len() fails
            /\ release_notes' = IF yamlFile.kind = "mapping" /\ yamlFile.hasKey
                                THEN yamlFile.value ELSE release_notes
       ELSE /\ pc' = "loaded"
            /\ release_notes' = yamlFile.value
            /\ UNCHANGED <<exitStatus, diagnostics>>
    /\ UNCHANGED <<envVars, total_pages, logo_drawing, styles, story, numPages,
                   pageNum, page, svgLookups, svgConversions, parseVars, svgVars>>

\* generate_pdf, lines 448-502, up to the call of doc.build; an exception that
\* leaves parse_html_content leaves generate_pdf and main: traceback, status 1
GeneratePdf ==
    /\ pc = "loaded"
    /\ LET built == BuildStory(release_notes) IN
       /\ story' = built.flowables
       /\ IF built.raised
          THEN /\ pc' = "exited"
               /\ exitStatus' = 1
               /\ diagnostics' = diagnostics + 1
               /\ UNCHANGED <<total_pages, numPages>>
          ELSE /\ pc' = "building"
               /\ total_pages' = TotalPages
               /\ \E extra \in 0..MaxExtra :
                     numPages' = PagesOfBreaks(built.flowables) + extra
               /\ UNCHANGED <<exitStatus, diagnostics>>
    /\ UNCHANGED <<envVars, release_notes, logo_drawing, styles, pageNum, page,
                   svgLookups, svgConversions, parseVars, svgVars>>

\* add_header_footer / create_header_footer for the next page of doc.build
DrawPage ==
    /\ pc = "building"
    /\ pageNum < numPages
    /\ LET got == GetLogoDrawing(logo_drawing, svgAsset, LogoHeight) IN
       /\ logo_drawing' = got.logo_drawing
       /\ svgLookups' = svgLookups + got.lookups
       /\ svgConversions' = svgConversions + got.conversions
       /\ pageNum' = pageNum + 1
       /\ page' = Decorated(HeaderBranding(got.logo_drawing, svgAsset, pngAsset),
                            pageNum + 1, total_pages)
    /\ UNCHANGED <<envVars, release_notes, total_pages, styles, pc, exitStatus,
                   diagnostics, story, numPages, parseVars, svgVars>>

\* doc.build writes the file once every page is laid out; generate_pdf returns
FinishBuild ==
    /\ pc = "building"
    /\ pageNum = numPages
    /\ outFile' = "written"
    /\ pc' = "generated"
    /\ UNCHANGED <<yamlFile, svgAsset, pngAsset, selfVars, exitStatus, diagnostics,
                   story, numPages, pageNum, page, svgLookups, svgConversions,
                   parseVars, svgVars>>

\* main, line 543, and the normal end of the process
MainDone ==
    /\ pc = "generated"
    /\ pc' = "exited"
    /\ exitStatus' = 0
    /\ UNCHANGED <<envVars, selfVars, diagnostics, story, numPages, pageNum, page,
                   svgLookups, svgConversions, parseVars, svgVars>>

Next == \/ MainCheckInput
        \/ LoadYamlData
        \/ GeneratePdf
        \/ DrawPage
        \/ FinishBuild
        \/ MainDone

Spec == Init /\ [][Next]_vars

----------------------------------------------------------------------------
(* Direct calls of convert_svg_to_drawing                                   *)

Dimensions == {0, 3} \cup {100 * k : k \in 1..MaxDim}
TargetHeights == {0, 7} \cup {25 * k : k \in 1..MaxDim}

SvgArgs == {SvgFile("unreadable", 0, 0)}
           \cup {SvgFile("ok", w, h) : w \in Dimensions, h \in Dimensions}

SvgInit == Constructed /\ MainIdle /\ ParseIdle /\ SvgIdle

ConvertCall(asset, target_height) ==
    /\ svgArg' = [asset |-> asset, target_height |-> target_height]
    /\ drawing' = ConvertSvgToDrawing(asset, target_height)
    /\ UNCHANGED <<envVars, selfVars, mainVars, parseVars>>

SvgNext == \E asset \in SvgArgs, t \in TargetHeights : ConvertCall(asset, t)

SvgSpec == SvgInit /\ [][SvgNext]_vars


----------------------------------------------------------------------------
(* The Block view of the flowables parse_html_content returns               *)

HasPrefix(t, pre) == Len(t) >= Len(pre) /\ SubSeq(t, 1, Len(pre)) = pre
DropPrefix(t, pre) == SubSeq(t, Len(pre) + 1, Len(t))

BlockOf(kind, text, indent) == [kind |-> kind, text |-> text, indent |-> indent]

Block(e) ==
    CASE e.style = "SectionHeader" -> BlockOf("SectionHeading", e.text, 0)
      [] e.style = "SubsectionHeader" -> BlockOf("SubsectionHeading", e.text, 0)
      [] e.style = "ListItem" /\ HasPrefix(e.text, NestedBullet) ->
            BlockOf("ListItem", DropPrefix(e.text, NestedBullet), 1)
      [] e.style = "ListItem" /\ ~HasPrefix(e.text, NestedBullet) ->
            BlockOf("ListItem", DropPrefix(e.text, Bullet), 0)
      [] OTHER -> BlockOf("Paragraph", e.text, 0)

Blocks(es) == [i \in 1..Len(es) |-> Block(es[i])]

RECURSIVE Flatten(_)
Flatten(ts) == IF ts = <<>> THEN <<>> ELSE Head(ts) \o Flatten(Tail(ts))

----------------------------------------------------------------------------
(* C1 *)

IsTitle(f) == f.type = "Paragraph" /\ f.style = "ReleaseTitle"
SectionTitles == SelectSeq(story, IsTitle)
TocDataRows == Tail(story[3].rows)
\* the anchor named in <link href=#...> and in <a name=...>
MarkupAnchor(par) == SubSeq(par.text, 2, 3)
Assembled == pc \in {"building", "generated"} \/ (pc = "exited" /\ exitStatus = 0)

\* C1: once create_table_of_contents and generate_pdf have assembled the
\* document, there are as many anchored section titles as TOC data rows (one
\* per release entry), row i links to the anchor release_i set at the title of
\* section i, and rows and sections follow the input order of the entries.
C1_TocMatchesSections ==
    Assembled =>
        /\ Len(SectionTitles) = Len(TocDataRows)
        /\ Len(TocDataRows) = Len(release_notes)
        /\ \A i \in 1..Len(release_notes) :
              /\ MarkupAnchor(TocDataRows[i][1]) = MarkupAnchor(SectionTitles[i])
              /\ MarkupAnchor(SectionTitles[i]) = <<"release_", ToString(i - 1)>>
              /\ TocDataRows[i][1].text[5]
                    = NoteGet(release_notes[i], "version", "N/A")
              /\ DropPrefix(SectionTitles[i].text,
                            SubSeq(SectionTitles[i].text, 1, 4))
                    = NoteGet(release_notes[i], "title", <<"Unknown Release">>)

C1_Witness ==
    /\ pc = "generated"
    /\ Len(release_notes) = 2
    /\ release_notes[1] # release_notes[2]
    /\ MarkupAnchor(TocDataRows[2][1]) = <<"release_", "1">>

----------------------------------------------------------------------------
(* C2 *)

InputUnusable ==
    \/ yamlFile.kind \in {"missing", "unparsable"}
    \/ yamlFile.kind # "mapping"
    \/ ~yamlFile.hasKey

\* C2: if the input file is missing, cannot be parsed, or parses to data
\* without the key releaseNotesList, the process ends with status 1 after a
\* diagnostic, generate_pdf is never entered and the output file is neither
\* created nor modified; status 0 is reached only after generate_pdf completed.
C2_BadInputExitsWithoutOutput ==
    /\ InputUnusable =>
          /\ pc \in {"start", "constructed", "exited"}
          /\ pc = "exited" => exitStatus = 1 /\ diagnostics >= 1
          /\ pc # "exited" => exitStatus = -1 /\ ENABLED Next
          /\ story = <<>>
          /\ numPages = 0 /\ pageNum = 0
          /\ outFile # "written"
    /\ exitStatus = 0 =>
          /\ pc = "exited"
          /\ story # <<>>
          /\ pageNum = numPages /\ numPages >= 1
          /\ outFile = "written"

C2_Witness ==
    /\ yamlFile.kind = "mapping" /\ ~yamlFile.hasKey
    /\ outFile = "old"
    /\ pc = "exited" /\ exitStatus = 1

----------------------------------------------------------------------------
(* C3 *)

\* what the claim expects for <ul><li>outer<ul><li>..</li>..</ul></li></ul>
ExpectedNested(outer, ts) ==
    LET text == Strip(outer \o Flatten(ts))
        main == IF Contains(text, ":") THEN SplitFirst(text, ":") ELSE text
    IN  <<BlockOf("ListItem", main, 0)>>
        \o [i \in 1..Len(ts) |-> BlockOf("ListItem", ts[i], 1)]

\* C3: for an unordered list whose item holds a nested unordered list,
\* parse_html_content emits exactly one ListItem at the outer level with the
\* item's text before its first colon, then one ListItem per nested item at the
\* next level, and nothing else: no nested item is emitted a second time.
C3_NestedListEmittedOnce ==
    (calls > 0 /\ ~raised) =>
        /\ html_content = GroupAExample =>
              Blocks(elements) = << BlockOf("ListItem", <<"Group A">>, 0),
                                    BlockOf("ListItem", <<"X">>, 1),
                                    BlockOf("ListItem", <<"Y">>, 1) >>
        /\ \A outer \in OuterTexts, ts \in ItemLists :
              html_content = Html(NestedList(outer, ts)) =>
                  Blocks(elements) = ExpectedNested(outer, ts)

----------------------------------------------------------------------------
(* C4 *)

\* the declarations of an inline style: white space dropped, split at ";"
NoSpaces(t) == LET Kept(c) == ~IsSpace(c) IN SelectSeq(t, Kept)

RECURSIVE Declarations(_, _)
Declarations(t, current) ==
    IF t = <<>> THEN (IF current = <<>> THEN {} ELSE {current})
    ELSE IF Head(t) = ";"
         THEN (IF current = <<>> THEN {} ELSE {current}) \cup Declarations(Tail(t), <<>>)
         ELSE Declarations(Tail(t), Append(current, Head(t)))

Declares(style, property, value) ==
    <<property, ":", value>> \in Declarations(NoSpaces(style), <<>>)

ClaimedKind(style) ==
    IF Declares(style, "color", "#2f5496") /\ Declares(style, "font-size", "16pt")
    THEN "SectionHeading"
    ELSE IF Declares(style, "color", "#2f5496") /\ Declares(style, "font-size", "13pt")
    THEN "SubsectionHeading"
    ELSE "Paragraph"

\* C4: a paragraph with non-empty text whose style declares color #2f5496 and
\* font-size 16pt (written with or without a space after the colon) becomes a
\* SectionHeading, with font-size 13pt a SubsectionHeading, with any other
\* style a Paragraph; a paragraph with empty or white-space text yields nothing.
C4_ParagraphClassifiedByStyle ==
    (calls > 0 /\ ~raised) =>
        \A st \in Styles, t \in Texts :
            html_content = Html(Element("p", st, TextToks(t))) =>
                Blocks(elements) = IF Strip(t) = <<>> THEN <<>>
                                   ELSE <<BlockOf(ClaimedKind(st), Strip(t), 0)>>

----------------------------------------------------------------------------
(* C5 *)

\* C5: for every fragment (a str), parse_html_content returns normally; when
\* parsing or converting the fragment failed, the result is a single Paragraph
\* holding the tag-stripped text, or an empty sequence.
C5_FailuresRecoveredInside ==
    (calls > 0 /\ html_content.isStr) =>
        /\ ~raised
        /\ failed =>
              \/ elements = <<>>
              \/ elements = <<Paragraph(Strip(StripTags(html_content.toks)),
                                         "ReleaseContent")>>

----------------------------------------------------------------------------
(* C6 *)

PageComplete ==
    /\ page.rule
    /\ page.attribution
    /\ page.pageText[1] = pageNum

\* C6 as amended: on every page the header shows the vector logo if it was
\* obtained and renders; the raster logo if no vector logo was obtained and the
\* raster file exists and renders; the branding text in every other case, also
\* when drawing an obtained vector logo or an existing raster file fails.  The
\* separator rule, the attribution line and the page counter follow in every case.
C6_FallbackChainByRenderability ==
    pageNum >= 1 =>
        /\ page.logo = IF svgAsset.kind = "ok" THEN "svg"
                       ELSE IF svgAsset.kind = "undrawable" THEN "text"
                       ELSE IF pngAsset = "ok" THEN "png"
                       ELSE "text"
        /\ PageComplete

C6_Witness ==
    /\ pageNum >= 1
    /\ svgAsset.kind = "missing"
    /\ pngAsset = "corrupt"
    /\ page.logo = "text"
    /\ PageComplete

\* C6 as stated: the vector logo if it can be obtained, otherwise the raster
\* logo if that file exists, otherwise the branding text.
C6_FallbackChainByExistence ==
    pageNum >= 1 =>
        /\ page.logo = IF svgAsset.kind \in {"ok", "undrawable"} THEN "svg"
                       ELSE IF pngAsset # "missing" THEN "png"
                       ELSE "text"
        /\ PageComplete

----------------------------------------------------------------------------
(* C7 *)

SameFraction(a, b) == a[1] * b[2] = b[1] * a[2]

\* C7: for a logo of native width w > 0 and height h > 0 and a target height t,
\* convert_svg_to_drawing returns a drawing of height t and width w*t/h (400 by
\* 100 at target 50 gives width 200); the fixed width 400 is what an asset
\* without a width or without a height gets.
C7_AspectRatioPreserved ==
    svgArg.asset.kind = "ok" =>
        LET w == svgArg.asset.width
            h == svgArg.asset.height
            t == svgArg.target_height
        IN  /\ drawing.ok
            /\ SameFraction(drawing.height, <<t, 1>>)
            /\ (w > 0 /\ h > 0) => SameFraction(drawing.width, <<w * t, h>>)
            /\ (w = 400 /\ h = 100 /\ t = 50) => SameFraction(drawing.width, <<200, 1>>)
            /\ (w = 0 \/ h = 0) => SameFraction(drawing.width, <<400, 1>>)

C7_Witness ==
    /\ svgArg.asset = SvgFile("ok", 400, 100)
    /\ svgArg.target_height = 50
    /\ drawing.ok
    /\ SameFraction(drawing.width, <<200, 1>>)

----------------------------------------------------------------------------
(* C8 *)

\* C8: the footer of every page reads "Page X of Y" with X the page's number
\* and Y the number of pages of the document being rendered, so X <= Y on
\* every page and X = Y on the last one.
C8_FooterTotalIsPageCount ==
    pageNum >= 1 =>
        /\ page.pageText[1] = pageNum
        /\ page.pageText[2] = numPages
        /\ page.pageText[1] <= page.pageText[2]
        /\ pageNum = numPages => page.pageText[1] = page.pageText[2]

----------------------------------------------------------------------------
(* C9 *)

----------------------------------------------------------------------------
(* C10 *)

\* C10: within one render, over any sequence of page-decorator calls, the
\* vector logo is looked up and converted at most once, whether the first
\* load succeeded or not.
C10_LoadedAtMostOnce ==
    svgLookups <= 1 /\ svgConversions <= 1

----------------------------------------------------------------------------
(* C11 *)

\* the li elements of a tree in document order, each with its parent's name
\* and the names of all its ancestors
RECURSIVE ListItemsUnder(_, _)
RECURSIVE ListItemsUnderAll(_, _, _)
ListItemsUnder(node, ancestors) ==
    ListItemsUnderAll(node.kids, node.tag, ancestors \cup {node.tag})
ListItemsUnderAll(kids, parent, ancestors) ==
    IF kids = <<>> THEN <<>>
    ELSE LET kid == Head(kids) IN
         (IF kid.tag = "#text" THEN <<>>
          ELSE (IF kid.tag = "li"
                THEN <<[el |-> kid, parent |-> parent, ancestors |-> ancestors]>>
                ELSE <<>>)
               \o ListItemsUnder(kid, ancestors))
         \o ListItemsUnderAll(Tail(kids), parent, ancestors)

\* what the li branch (lines 269-275) appends for one li element
EmittedByLiRule(d) ==
    HandleLi([elements |-> <<>>, failed |-> FALSE], d.el, d.parent).elements

\* C11: the standalone list-item rule emits a list item (one with text) if and
\* only if that element has no unordered-list ancestor; a list item that lies
\* inside an unordered list, at any depth and also with another element
\* between it and the list, is never emitted by this rule.
C11_LiRuleOnlyOutsideLists ==
    (calls > 0 /\ html_content.isStr /\ ~failed) =>
        \A i \in 1..Len(ListItemsUnder(BeautifulSoup(html_content.toks), {})) :
            LET d == ListItemsUnder(BeautifulSoup(html_content.toks), {})[i]
            IN  /\ Strip(GetText(d.el)) # <<>> =>
                      (EmittedByLiRule(d) # <<>> <=> "ul" \notin d.ancestors)
                /\ EmittedByLiRule(d) # <<>> =>
                      /\ EmittedByLiRule(d)[1] \in {elements[j] : j \in 1..Len(elements)}
                      /\ "ul" \notin d.ancestors

----------------------------------------------------------------------------
(* C12 *)

IsPageBreak(f) == f = PageBreak
PageBreaks(flowables) == Len(SelectSeq(flowables, IsPageBreak))

\* the runs of flowables between page breaks
RECURSIVE SplitAtBreaks(_)
SplitAtBreaks(s) ==
    IF PageBreaks(s) = 0 THEN <<s>>
    ELSE LET k == CHOOSE j \in 1..Len(s) :
                      s[j] = PageBreak /\ \A m \in 1..(j - 1) : s[m] # PageBreak
         IN  <<SubSeq(s, 1, k - 1)>> \o SplitAtBreaks(SubSeq(s, k + 1, Len(s)))

NoLowerCase(t) == \A j \in 1..Len(t) : t[j] \notin {"j", "a", "n", "Unknown Date"}

\* the blocks of entry i (from 1): anchored title, date line, spacer, body
IsEntryRun(run, i) ==
    LET note == release_notes[i]
        date == NoteGet(note, "date", <<"Unknown Date">>)
        body == NoteGet(note, "fullText", Html(<<>>))
    IN  /\ Len(run) >= 3
        /\ run[1] = Paragraph(<<"<a name=", "release_", ToString(i - 1), "></a>">>
                                 \o NoteGet(note, "title", <<"Unknown Release">>),
                              "ReleaseTitle")
        /\ run[2].type = "Paragraph" /\ run[2].style = "ReleaseDate"
        /\ HasPrefix(run[2].text, <<"<b>", "DATE OF RELEASE:", "</b>", " ">>)
        /\ Len(run[2].text) = 4 + Len(date)
        /\ SubSeq(run[2].text, 5, Len(run[2].text)) = Upper(date)
        /\ NoLowerCase(SubSeq(run[2].text, 5, Len(run[2].text)))
        /\ run[3].type = "Spacer"
        /\ SubSeq(run, 4, Len(run))
              = IF Truthy(body) THEN ParseHtmlContent(body).elements ELSE <<>>

\* the story is the table of contents part (heading, a spacer if the claim
\* names one, table, page break) followed by the entries' runs
StoryInOrder(tocSpacer) ==
    LET n == Len(release_notes)
        toc == IF tocSpacer THEN 4 ELSE 3
        rest == SubSeq(story, toc + 1, Len(story))
    IN  /\ Len(story) >= toc
        /\ story[1] = Paragraph(<<"Table of Contents">>, "SectionHeader")
        /\ tocSpacer => story[2].type = "Spacer"
        /\ story[toc - 1].type = "Table"
        /\ story[toc] = PageBreak
        /\ IF n = 0 THEN rest = <<>>
           ELSE /\ Len(SplitAtBreaks(rest)) = n
                /\ \A i \in 1..n : IsEntryRun(SplitAtBreaks(rest)[i], i)
        /\ PageBreaks(story) = 1 + (IF n >= 1 THEN n - 1 ELSE 0)
        /\ n >= 1 => story[Len(story)] # PageBreak

====
